---------------------------- MODULE Spec2Model ----------------------------
(***************************************************************************)
(* A model of ynab-sync (src/src/index.js): one run of main, that is the   *)
(* reconciliation calcDiff of an input ledger against the transactions of  *)
(* the destination account, followed by the date corrections               *)
(* (executeFixChanged) and the OFX import (executeImportTransactions).     *)
(*                                                                         *)
(* Three specifications share the variables:                               *)
(*   - Spec: the run from the wait for the account's button on, every body *)
(*     of the page's load collected;                                       *)
(*   - SpecCollect: the run from the page's load on, with the calls of     *)
(*     responseCollector interleaved with main;                            *)
(*   - SpecIdle: one call of waitForNetworkIdle, with the page's request   *)
(*     events and the timers.                                              *)
(*                                                                         *)
(* JavaScript values are modelled as follows.                              *)
(*   - a string whose characters the code looks at (dates, amounts, memos, *)
(*     short ids) is the sequence of its characters;                       *)
(*   - an opaque string (ids, names) is a TLA+ string;                     *)
(*   - a number is a record [nan, v]: NaN is a number no number equals;    *)
(*   - an object is a record, a missing property a missing field;          *)
(*   - a reference to an element of the transactions array is the index of *)
(*     the element, 0 standing for undefined.                              *)
(***************************************************************************)
EXTENDS Integers, Sequences, FiniteSets, TLC

VARIABLES
    argInput,       \* main: `input`, the parsed input file (line 76)
    accountName,    \* main: options.account (line 67)
    responses,      \* main: the JSON bodies collected from the page (line 84)
    pc,             \* main: where the run is
    calcDiffState,  \* the promise of the call of calcDiff (line 109)
    input,          \* calcDiff: `input` after normalization (line 203)
    writes,         \* calcDiff: the assignments to a property of a record of `input` (line 226)
    transactions,   \* calcDiff: the account's transactions (line 217)
    different,      \* calcDiff: line 222
    changed,        \* calcDiff: line 237, then main's `changed`
    missing,        \* calcDiff: line 238, then main's `missing`
    i,              \* main: the loop counter of line 117 (0-based, as in the code)
    calls,          \* the calls of executeFixChanged / executeImportTransactions not yet settled
    ynab,           \* the destination: the account's transactions as the service holds them
    applied,        \* the operations the page has carried out, in order
    ofxFile,        \* executeImportTransactions: the items of the generated OFX file
    collecting,     \* main: responseCollector is a listener of 'response' (lines 92, 106)
    network,        \* the bodies of the responses the page has yet to receive
    parsing,        \* responseCollector: the calls that await response.json() (line 86)
    requests,       \* waitForNetworkIdle: the parameter `requests` (line 325)
    inFlight,       \* waitForNetworkIdle: `inFlight` (line 346)
    timeoutId,      \* waitForNetworkIdle: `timeoutId` (lines 347, 364)
    timers,         \* the timers set with cleanupAndResolve and neither fired nor cleared
    globalTimer,    \* the timer of lines 336-340 is set and neither fired nor cleared
    listeners,      \* onRequest and onResponse are listeners of the page (lines 368-370)
    promise,        \* the promise waitForNetworkIdle returns
    now,            \* the time since the call of waitForNetworkIdle
    started,        \* the requests the page has started since the call
    open,           \* the requests in flight: those started before the call, those started since
    quietSince      \* the time since when `inFlight` has been at most `requests`

\* one run of main
runVars == <<argInput, accountName, responses, pc, calcDiffState, input, writes, transactions,
             different, changed, missing, i, calls, ynab, applied, ofxFile>>

\* the collection of the bodies (lines 84-107)
collectVars == <<collecting, network, parsing>>

\* one call of waitForNetworkIdle
idleVars == <<requests, inFlight, timeoutId, timers, globalTimer, listeners, promise, now,
              started, open, quietSince>>

vars == <<runVars, collectVars, idleVars>>

---------------------------------------------------------------------------
(* Bounds of the model *)

\* the largest value of the parameter `requests` of waitForNetworkIdle
MaxRequests == 1

\* the most requests the page starts during one call of waitForNetworkIdle
MaxStarted == 3

\* the longest input file
MaxInput == 3
\* the most transactions the destination reports
MaxTx == 2

---------------------------------------------------------------------------
(* JavaScript strings and numbers *)

Digits == <<"0", "1", "2", "3", "4", "5", "6", "7", "8", "9">>

IsDigit(c) == \E n \in 1..10 : Digits[n] = c

DigitValue(c) == (CHOOSE n \in 1..10 : Digits[n] = c) - 1

\* String.prototype.startsWith
StartsWith(s, p) == Len(s) >= Len(p) /\ SubSeq(s, 1, Len(p)) = p

\* String.prototype.includes
Includes(s, sub) ==
    \E k \in 0..(Len(s) - Len(sub)) : SubSeq(s, k + 1, k + Len(sub)) = sub

\* s.replace(c, '') for a pattern that matches the first occurrence of the
\* one character c (a regular expression without the g flag)
RECURSIVE RemoveFirst(_, _)
RemoveFirst(s, c) ==
    IF s = <<>> THEN <<>>
    ELSE IF Head(s) = c THEN Tail(s)
    ELSE <<Head(s)>> \o RemoveFirst(Tail(s), c)

\* s.replace(/c/g, '')
RECURSIVE RemoveAll(_, _)
RemoveAll(s, c) ==
    IF s = <<>> THEN <<>>
    ELSE IF Head(s) = c THEN RemoveAll(Tail(s), c)
    ELSE <<Head(s)>> \o RemoveAll(Tail(s), c)

\* s.replace(/^-/, '')
StripLeadingMinus(s) == IF s # <<>> /\ Head(s) = "-" THEN Tail(s) ELSE s

\* s.split(c)
RECURSIVE Split(_, _)
Split(s, c) ==
    IF \A k \in 1..Len(s) : s[k] # c THEN <<s>>
    ELSE LET k == CHOOSE j \in 1..Len(s) :
                     s[j] = c /\ \A h \in 1..(j - 1) : s[h] # c
         IN <<SubSeq(s, 1, k - 1)>> \o Split(SubSeq(s, k + 1, Len(s)), c)

\* Array.prototype.reverse
Reverse(a) == [k \in 1..Len(a) |-> a[Len(a) + 1 - k]]

\* Array.prototype.join
RECURSIVE Join(_, _)
Join(a, c) ==
    IF a = <<>> THEN <<>>
    ELSE IF Len(a) = 1 THEN a[1]
    ELSE a[1] \o <<c>> \o Join(Tail(a), c)

Num(n) == [nan |-> FALSE, v |-> n]
NaN == [nan |-> TRUE, v |-> 0]

\* a === b on numbers
StrictEq(a, b) == ~a.nan /\ ~b.nan /\ a.v = b.v

\* a * b on numbers
Times(a, b) == IF a.nan \/ b.nan THEN NaN ELSE Num(a.v * b.v)

\* the longest prefix of s made of digits
RECURSIVE DigitPrefix(_)
DigitPrefix(s) ==
    IF s = <<>> \/ ~IsDigit(Head(s)) THEN <<>>
    ELSE <<Head(s)>> \o DigitPrefix(Tail(s))

RECURSIVE DecimalValue(_)
DecimalValue(ds) ==
    IF ds = <<>> THEN 0
    ELSE 10 * DecimalValue(SubSeq(ds, 1, Len(ds) - 1)) + DigitValue(ds[Len(ds)])

\* parseInt(s): an optional sign, then the digits up to the first character
\* that is no digit; NaN when there is no digit
ParseInt(s) ==
    LET neg  == s # <<>> /\ Head(s) = "-"
        body == IF s # <<>> /\ Head(s) \in {"-", "+"} THEN Tail(s) ELSE s
        ds   == DigitPrefix(body)
    IN IF ds = <<>> THEN NaN
       ELSE Num((IF neg THEN -1 ELSE 1) * DecimalValue(ds))

---------------------------------------------------------------------------
(* calcDiff: the normalization of an input record *)

\* sh.unique: the short hash of an id (the shorthash package)
shUnique(id) ==
    CASE id = "a1" -> <<"Z", "k">>
      [] id = "a2" -> <<"1", "q">>
      [] id = "b1" -> <<"X", "y">>
      [] OTHER     -> <<"0">>

\* variants of CompareAmount: without the factor 10, and with the sign of
\* the amount kept
CompareAmountTimes1(amount) ==
    LET value == ParseInt(RemoveFirst(StripLeadingMinus(amount), "."))
    IN Times(Num(IF StartsWith(amount, <<"-">>) THEN 1 ELSE -1), value)

CompareAmountSameSign(amount) ==
    LET value == Times(ParseInt(RemoveFirst(StripLeadingMinus(amount), ".")), Num(10))
    IN Times(Num(IF StartsWith(amount, <<"-">>) THEN -1 ELSE 1), value)

\* the value of the compareAmount property, lines 209-212
CompareAmount(amount) ==
    LET value == Times(ParseInt(RemoveFirst(StripLeadingMinus(amount), ".")), Num(10))
    IN Times(Num(IF StartsWith(amount, <<"-">>) THEN 1 ELSE -1), value)

\* {...a, ...b}: the properties of a, then those of b over them
Spread(a, b) ==
    [k \in DOMAIN a \cup DOMAIN b |-> IF k \in DOMAIN b THEN b[k] ELSE a[k]]

\* the rest of the destructuring {id, date, amount, ...rest}
Rest(r) == [k \in DOMAIN r \ {"id", "date", "amount"} |-> r[k]]

\* the callback of input.map, lines 203-215
Normalize(r) ==
    Spread([id            |-> r.id,
            date          |-> r.date.date,
            amount        |-> r.amount,
            shortId       |-> shUnique(r.id),
            compareAmount |-> CompareAmount(r.amount)],
           Rest(r))

---------------------------------------------------------------------------
(* The inputs of a run *)

Iso(y, m, d) == y \o <<"-">> \o m \o <<"-">> \o d

Y2017 == <<"2", "0", "1", "7">>
Y2018 == <<"2", "0", "1", "8">>
Y2019 == <<"2", "0", "1", "9">>
N01 == <<"0", "1">>
N02 == <<"0", "2">>
N03 == <<"0", "3">>
N05 == <<"0", "5">>
N06 == <<"0", "6">>
N07 == <<"0", "7">>

Title == <<"T">>

A_50_00 == <<"5", "0", ".", "0", "0">>
A_10_00 == <<"1", "0", ".", "0", "0">>
A_20_00 == <<"2", "0", ".", "0", "0">>

\* an input record as the input file holds it
Raw(id, date, amount) ==
    [id |-> id, date |-> [date |-> date], amount |-> amount]

Titled(r) == Spread(r, [title |-> Title])

\* the records an input file is made of: those of the two scenarios of the
\* specification (a1, a2; b1), a second record with b1's date and amount, a
\* withdrawal of 2017, and a record that carries a property named shortId
InputRecords ==
    { Raw("a1", Iso(Y2018, N03, N01), A_50_00),
      Raw("a2", Iso(Y2019, N01, N01), A_10_00),
      Raw("b1", Iso(Y2018, N05, N05), A_20_00),
      Titled(Raw("a2", Iso(Y2018, N05, N05), A_20_00)),
      Titled(Raw("a1", Iso(Y2017, N05, N06), <<"-">> \o A_20_00)),
      Spread(Titled(Raw("b1", Iso(Y2018, N05, N05), A_20_00)),
             [shortId |-> <<"Z", "k">>]) }

\* amount strings of the form [-]digits with at most one separator
Amounts ==
    { A_50_00, A_10_00, A_20_00, <<"-">> \o A_20_00,
      <<"1", ".", "2", "3", "4">>, <<"-", "1", ".", "2", "3", "4">>,
      <<"5">>, <<"-", "7">>, <<"0", ".", "0", "7">>, <<"-", "0", ".", "5", "0">>,
      <<"1", "2", ".", "3", "4">>, <<"0", "0">> }

\* amount strings that are not of that form: what is left once the leading
\* minus and the first separator are removed is not a string of digits
MalformedAmounts ==
    { <<"a", "b", "c">>, <<"-">>, <<"1", "2", "a", ".", "3", "4">> }

Tag(id) == <<"#">> \o shUnique(id)

Tx(id, date, amount, account) ==
    [id |-> id, date |-> date, amount |-> Num(amount), entities_account_id |-> account]

WithMemo(t, memo) == Spread(t, [memo |-> memo])

\* the transactions the destination may report
DestinationTransactions ==
    { WithMemo(Tx("d9", Iso(Y2018, N05, N06), -2000, "acc1"), Tag("b1")),
      Tx("d1", Iso(Y2018, N05, N05), -20000, "acc1"),
      WithMemo(Tx("d2", Iso(Y2018, N03, N01), -50000, "acc1"),
               Tag("a1") \o <<" ", "-", " ">> \o Title),
      WithMemo(Tx("d3", Iso(Y2018, N03, N02), -50000, "acc1"),
               Tag("a1") \o <<" ", "-", " ">> \o Title),
      WithMemo(Tx("d4", Iso(Y2017, N05, N06), 20000, "acc1"), <<>>),
      WithMemo(Tx("d5", Iso(Y2018, N05, N07), -20000, "acc2"),
               Tag("b1") \o <<" ", "-", " ">> \o Title),
      WithMemo(Tx("d6", Iso(Y2018, N05, N07), -20000, "acc1"),
               <<"x">> \o Tag("b1") \o <<"!">> \o Tag("a1")) }

\* the accounts of the budget
Accounts ==
    << [id |-> "acc1", account_name |-> "Nubank"],
       [id |-> "acc2", account_name |-> "Other"] >>

\* the sequences of at most n elements of S, no two with the same id
SeqsById(S, n) ==
    UNION { { s \in [1..k -> S] :
                \A a, b \in 1..k : a # b => s[a].id # s[b].id } : k \in 0..n }

\* the bodies collected while the page loads: one without entities, then the
\* budget's accounts and transactions
Responses(txs) ==
    << [server_knowledge |-> 1],
       [changed_entities |-> [be_accounts |-> Accounts, be_transactions |-> txs]] >>

TypeOK ==
    /\ pc \in {"selectAccount", "calcDiff", "loop", "fixing", "importing", "close", "done",
              "failed"}
    /\ calcDiffState \in {"pending", "fulfilled", "rejected"}
    /\ i \in 0..Len(changed)
    /\ collecting \in BOOLEAN
    /\ requests \in 0..MaxRequests
    /\ inFlight \in 0..MaxStarted
    /\ promise \in {"none", "pending", "resolved", "rejected"}
    /\ now \in Nat
    /\ started \in 0..MaxStarted
    /\ \A t \in timers : t.id \in 1..timeoutId

\* main at the wait of line 97, the account holding the transactions txs,
\* with the bodies collected so far
InitMain(in, name, txs, bodies) ==
    /\ argInput = in
    /\ accountName = name
    /\ responses = bodies
    /\ pc = "selectAccount"
    /\ calcDiffState = "pending"
    /\ input = <<>>
    /\ writes = <<>>
    /\ transactions = <<>>
    /\ different = <<>>
    /\ changed = <<>>
    /\ missing = <<>>
    /\ i = 0
    /\ calls = {}
    /\ ynab = txs
    /\ applied = <<>>
    /\ ofxFile = <<>>

InitRun(in, name, txs) == InitMain(in, name, txs, Responses(txs))

\* the bodies of the page's load are collected: every response has come and
\* every call of responseCollector has ended
Collected ==
    /\ collecting = TRUE
    /\ network = <<>>
    /\ parsing = {}

\* no call of waitForNetworkIdle is looked at
NoWait ==
    /\ requests = 0
    /\ inFlight = 0
    /\ timeoutId = 0
    /\ timers = {}
    /\ globalTimer = FALSE
    /\ listeners = FALSE
    /\ promise = "none"
    /\ now = 0
    /\ started = 0
    /\ open = [earlier |-> 0, since |-> 0]
    /\ quietSince = 0

\* the account names a run may be given: those of the budget and one the
\* budget does not have
AccountNames == {"Nubank", "Other", "Savings"}

\* main up to the wait for the account's button (lines 63-96), the page
\* loaded and its bodies collected: an input file of the catalogue's records
\* synchronized into the account Nubank, or a single record with any amount
\* synchronized into any account
Init ==
    /\ Collected
    /\ NoWait
    /\ \E txs \in SeqsById(DestinationTransactions, MaxTx) :
        \/ \E in \in SeqsById(InputRecords, MaxInput) : InitRun(in, "Nubank", txs)
        \/ \E a \in Amounts \cup MalformedAmounts, name \in AccountNames :
              InitRun(<<Titled(Raw("b1", Iso(Y2018, N05, N05), a))>>, name, txs)

---------------------------------------------------------------------------
(* calcDiff *)

\* Array.prototype.find, given the outcome of the test on each element: the
\* index of the first element that passes, 0 when there is none (undefined)
Find(passes) ==
    IF \E k \in 1..Len(passes) : passes[k]
    THEN CHOOSE k \in 1..Len(passes) : passes[k] /\ \A h \in 1..(k - 1) : ~passes[h]
    ELSE 0

\* r.changed_entities && r.changed_entities[entity]
HasEntities(r, entity) ==
    "changed_entities" \in DOMAIN r /\ entity \in DOMAIN r.changed_entities

\* a variant of DateRelevant: the year 2018 alone
DateRelevant2018Only(rec) == StartsWith(rec.date, Y2018)

\* the test of line 223
DateRelevant(rec) == StartsWith(rec.date, Y2018) \/ StartsWith(rec.date, Y2017)

\* the test of the find of line 224
EqualityMatch(rec, t) == rec.date = t.date /\ StrictEq(rec.compareAmount, t.amount)

\* a variant of TagMatch: any tag will do
TagMatchAnyTag(rec, t) ==
    /\ "memo" \in DOMAIN t
    /\ t.memo # <<>>
    /\ Includes(t.memo, <<"#">>)

\* the test of the find of lines 226-233
TagMatch(rec, t) ==
    /\ "memo" \in DOMAIN t
    /\ t.memo # <<>>
    /\ Includes(t.memo, <<"#">> \o rec.shortId)

\* a variant of Unmatched: a record whose tag a memo carries is kept
UnmatchedUnlessTagged(rec, txs) ==
    \/ \A k \in 1..Len(txs) : ~EqualityMatch(rec, txs[k])
    \/ \E k \in 1..Len(txs) : TagMatch(rec, txs[k])

\* the filter of line 224
Unmatched(rec, txs) == \A k \in 1..Len(txs) : ~EqualityMatch(rec, txs[k])

\* a variant of WithOriginal: the last transaction that carries the tag
FindLast(passes) ==
    IF \E k \in 1..Len(passes) : passes[k]
    THEN CHOOSE k \in 1..Len(passes) :
             passes[k] /\ \A h \in (k + 1)..Len(passes) : ~passes[h]
    ELSE 0

WithOriginalLast(rec, txs) ==
    Spread(rec, [original |-> FindLast([k \in 1..Len(txs) |-> TagMatch(rec, txs[k])])])

\* the callback of the map of lines 225-235: i.original = transactions.find(...)
WithOriginal(rec, txs) ==
    Spread(rec, [original |-> Find([k \in 1..Len(txs) |-> TagMatch(rec, txs[k])])])

\* lines 222-235
Different(in, txs) ==
    LET Relevant(rec) == DateRelevant(rec)
        NoMatch(rec)  == Unmatched(rec, txs)
        kept          == SelectSeq(SelectSeq(in, Relevant), NoMatch)
    IN [k \in 1..Len(kept) |-> WithOriginal(kept[k], txs)]

\* i.original as a condition (line 237)
HasOriginal(rec) == rec.original # 0

\* a variant of NoOriginal: a test that every record passes
NoOriginalAlways(rec) == TRUE

\* !i.original (line 238)
NoOriginal(rec) == rec.original = 0

\* the assignments of line 226, in order: one to the property `original` of
\* each record the two filters keep, the map of line 225 calling its
\* callback once per element
OriginalWrites(in, txs) ==
    LET Kept(k) == DateRelevant(in[k]) /\ Unmatched(in[k], txs)
        kept    == SelectSeq([k \in 1..Len(in) |-> k], Kept)
    IN [n \in 1..Len(kept) |-> [record |-> kept[n], property |-> "original"]]

\* a variant of CallerRecords: the derived shortId is written onto the
\* caller's record
CallerRecordsTagged(in) ==
    [k \in 1..Len(in) |-> Spread(in[k], [shortId |-> shUnique(in[k].id)])]

\* the caller's records once calcDiff has run: the callback of lines 203-215
\* reads each record by destructuring it and returns a new object, and line
\* 226 writes to the objects the map returned
CallerRecords(in) == in

\* the account named accountName (line 201), 0 when there is none
AccountIndex(accounts, name) ==
    Find([k \in 1..Len(accounts) |-> accounts[k].account_name = name])

\* lines 196-245. The function runs to its first await (line 241) in one
\* step; the file it then writes holds a copy of its results and is not
\* read again. A property read on undefined throws a TypeError, which ends
\* the run.
CalcDiff ==
    /\ pc = "calcDiff"
    /\ LET ra == Find([k \in 1..Len(responses) |->
                           HasEntities(responses[k], "be_accounts")])
           rt == Find([k \in 1..Len(responses) |->
                           HasEntities(responses[k], "be_transactions")])
       IN IF ra = 0 \/ rt = 0
          THEN /\ pc' = "failed"
               /\ calcDiffState' = "rejected"
               /\ UNCHANGED <<input, writes, transactions, different, changed, missing>>
          ELSE LET accounts == responses[ra].changed_entities.be_accounts
                   a        == AccountIndex(accounts, accountName)
                   be       == responses[rt].changed_entities.be_transactions
                   OfAccount(t) == t.entities_account_id = accounts[a].id
                   normal   == [k \in 1..Len(argInput) |-> Normalize(argInput[k])]
               IN IF a = 0 /\ be # <<>>
                  THEN /\ pc' = "failed"
                       /\ calcDiffState' = "rejected"
                       /\ input' = normal
                       /\ UNCHANGED <<writes, transactions, different, changed, missing>>
                  ELSE LET txs  == IF a = 0 THEN <<>> ELSE SelectSeq(be, OfAccount)
                           diff == Different(normal, txs)
                           Kept(rec) == DateRelevant(rec) /\ Unmatched(rec, txs)
                       IN /\ transactions' = txs
                          /\ different' = diff
                          /\ input' = [k \in 1..Len(normal) |->
                                          IF Kept(normal[k])
                                          THEN WithOriginal(normal[k], txs)
                                          ELSE normal[k]]
                          /\ writes' = OriginalWrites(normal, txs)
                          /\ changed' = SelectSeq(diff, HasOriginal)
                          /\ missing' = SelectSeq(diff, NoOriginal)
                          /\ calcDiffState' = "fulfilled"
                          /\ pc' = IF changed' # <<>> \/ missing' # <<>>
                                   THEN "loop" ELSE "close"
    /\ argInput' = CallerRecords(argInput)
    /\ UNCHANGED <<idleVars, collectVars, accountName, responses, i, calls, ynab, applied, ofxFile>>

---------------------------------------------------------------------------
(* executeFixChanged *)

\* a variant of TypedDate: year/month/day
TypedDateNoReverse(date) == Join(Split(date, "-"), "/")

\* line 270: the date as it is typed into the grid's date input
TypedDate(date) == Join(Reverse(Split(date, "-")), "/")

\* the grid's reading of a typed date; the budget's date format is taken to
\* be day/month/year, the order line 270 types
GridDate(typed) ==
    LET parts == Split(typed, "/")
    IN IF Len(parts) = 3 THEN Iso(parts[3], parts[2], parts[1]) ELSE typed

\* the row of lines 252-254, [data-row-id="${changed.original.id}"]
RowId(rec) == transactions[rec.original].id

\* what saving the edited row does (lines 252-281): the row's date becomes
\* the date typed
DateCorrection(rec) ==
    [op |-> "setDate", id |-> RowId(rec), date |-> GridDate(TypedDate(rec.date))]

FixCall(k) == [call |-> "fix", k |-> k, stage |-> "search"]

\* a variant of FixStart: the call is not awaited
FixStartNoAwait ==
    /\ pc = "loop"
    /\ i < Len(changed)
    /\ calls' = calls \cup {FixCall(i)}
    /\ i' = i + 1
    /\ UNCHANGED <<idleVars, collectVars,
                   argInput, accountName, responses, writes, calcDiffState, pc, input, transactions,
                   different, changed, missing, ynab, applied, ofxFile>>

\* lines 117-119: the loop calls executeFixChanged(page, changed[i]) and
\* awaits it
FixStart ==
    /\ pc = "loop"
    /\ i < Len(changed)
    /\ calls' = calls \cup {FixCall(i)}
    /\ pc' = "fixing"
    /\ UNCHANGED <<idleVars, collectVars,
                   argInput, accountName, responses, writes, calcDiffState, input, transactions,
                   different, changed, missing, i, ynab, applied, ofxFile>>

\* lines 248-279: the search, the edit of the row's date, the click on save.
\* The page is taken to show the row of changed.original.id once the search
\* is typed.
FixSave ==
    \E c \in calls :
        /\ c.call = "fix"
        /\ c.stage = "search"
        /\ LET op == DateCorrection(changed[c.k + 1])
           IN /\ applied' = Append(applied, op)
              /\ ynab' = [k \in 1..Len(ynab) |->
                             IF ynab[k].id = op.id
                             THEN [ynab[k] EXCEPT !.date = op.date]
                             ELSE ynab[k]]
        /\ calls' = (calls \ {c}) \cup {[c EXCEPT !.stage = "saved"]}
        /\ UNCHANGED <<idleVars, collectVars,
                       argInput, accountName, responses, writes, calcDiffState, pc, input,
                       transactions,
                       different, changed, missing, i, ofxFile>>

\* lines 278-281 and 119-120: the promise of the call settles once the
\* network is idle; main, which awaits it, goes on with the next i
FixSettle ==
    \E c \in calls :
        /\ c.call = "fix"
        /\ c.stage = "saved"
        /\ calls' = calls \ {c}
        /\ IF pc = "fixing"
           THEN pc' = "loop" /\ i' = i + 1
           ELSE UNCHANGED <<pc, i>>
        /\ UNCHANGED <<idleVars, collectVars,
                       argInput, accountName, responses, writes, calcDiffState, input, transactions,
                       different, changed, missing, ynab, applied, ofxFile>>

---------------------------------------------------------------------------
(* executeImportTransactions *)

\* Number(s) for a decimal literal, in thousandths (digits after the third
\* decimal are not kept); NaN for any other string but the empty one
ToNumber(s) ==
    LET neg   == s # <<>> /\ Head(s) = "-"
        body  == IF s # <<>> /\ Head(s) \in {"-", "+"} THEN Tail(s) ELSE s
        parts == Split(body, ".")
        whole == parts[1]
        frac  == IF Len(parts) > 1 THEN parts[2] ELSE <<>>
        frac3 == SubSeq(frac \o <<"0", "0", "0">>, 1, 3)
        AllDigits(t) == \A k \in 1..Len(t) : IsDigit(t[k])
    IN IF s = <<>> THEN Num(0)
       ELSE IF Len(parts) > 2 \/ ~AllDigits(whole) \/ ~AllDigits(frac)
               \/ (whole = <<>> /\ frac = <<>>)
       THEN NaN
       ELSE Num((IF neg THEN -1 ELSE 1)
                * (1000 * DecimalValue(whole) + DecimalValue(frac3)))

OfxTime == <<"0", "0", "0", "0", "0", "0", "[", "-", "3", ":", "G", "M", "T", "]">>

Undefined == <<"u", "n", "d", "e", "f", "i", "n", "e", "d">>

\* lines 392-412: the STMTTRN element of one record
ofxItem(itemData, detailed) ==
    LET title == IF "title" \in DOMAIN itemData THEN itemData.title ELSE Undefined
        shortid == shUnique(itemData.id)
    IN [DTPOSTED |-> RemoveAll(itemData.date, "-") \o OfxTime,
        TRNAMT   |-> Times(ToNumber(itemData.amount), Num(-1)),
        FITID    |-> itemData.id,
        MEMO     |-> IF detailed
                     THEN <<"#">> \o shortid \o <<" ", "-", " ">> \o title
                     ELSE title]

\* lines 414-461, the BANKTRANLIST: charges.map(i => ofxItem(i, detailed))
generateOfx(charges, detailed) ==
    [k \in 1..Len(charges) |-> ofxItem(charges[k], detailed)]

\* the date of an OFX time stamp, YYYYMMDD...
OfxDate(stamp) == Iso(SubSeq(stamp, 1, 4), SubSeq(stamp, 5, 6), SubSeq(stamp, 7, 8))

\* the transaction the destination makes of an imported item
Imported(item, account) ==
    [id |-> "n-" \o item.FITID, date |-> OfxDate(item.DTPOSTED), amount |-> item.TRNAMT,
     memo |-> item.MEMO, entities_account_id |-> account, import_id |-> item.FITID]

ImportCall == [call |-> "import", k |-> 0, stage |-> "file"]

\* lines 117-124 and 140-141, 174-182: the loop is over and missing is not
\* empty; the OFX file is written
ImportStart ==
    /\ pc = "loop"
    /\ i >= Len(changed)
    /\ missing # <<>>
    /\ ofxFile' = generateOfx(missing, TRUE)
    /\ calls' = calls \cup {ImportCall}
    /\ pc' = "importing"
    /\ UNCHANGED <<idleVars, collectVars,
                   argInput, accountName, responses, writes, calcDiffState, input, transactions,
                   different, changed, missing, i, ynab, applied>>

\* lines 143-163: the file is uploaded and the import confirmed; the
\* finally block removes the file as soon as the click is under way
ImportConfirm ==
    /\ ImportCall \in calls
    /\ LET account == Accounts[AccountIndex(Accounts, accountName)].id
       IN /\ applied' = applied \o [k \in 1..Len(ofxFile) |->
                                       [op |-> "create", item |-> ofxFile[k]]]
          /\ ynab' = ynab \o [k \in 1..Len(ofxFile) |-> Imported(ofxFile[k], account)]
    /\ ofxFile' = <<>>
    /\ calls' = (calls \ {ImportCall}) \cup {[ImportCall EXCEPT !.stage = "saved"]}
    /\ UNCHANGED <<idleVars, collectVars,
                   argInput, accountName, responses, writes, calcDiffState, pc, input, transactions,
                   different, changed, missing, i>>

\* lines 153-156 and 124-125: the import's promise settles
ImportSettle ==
    /\ [ImportCall EXCEPT !.stage = "saved"] \in calls
    /\ calls' = calls \ {[ImportCall EXCEPT !.stage = "saved"]}
    /\ pc' = IF pc = "importing" THEN "close" ELSE pc
    /\ UNCHANGED <<idleVars, collectVars,
                   argInput, accountName, responses, writes, calcDiffState, input, transactions,
                   different, changed, missing, i, ynab, applied, ofxFile>>

---------------------------------------------------------------------------
(* main *)

\* the titles of the elements .nav-account-name of the page: the sidebar
\* lists the accounts of the budget by name
NavAccountNames == { Accounts[k].account_name : k \in 1..Len(Accounts) }

\* a variant of SelectAccount: the button is looked up without waiting for
\* it, and clicked if it is there
SelectAccountIfShown ==
    /\ pc = "selectAccount"
    /\ network = <<>>
    /\ pc' = "calcDiff"
    /\ collecting' = FALSE
    /\ UNCHANGED <<idleVars, network, parsing, argInput, accountName, responses, writes,
                   calcDiffState, input, transactions, different, changed, missing, i,
                   calls, ynab, applied, ofxFile>>

\* lines 97-107: once the page has received the responses of its load, main
\* waits for the button of the account named accountName, clicks it and
\* waits for the network to be idle; waitForSelector rejects when no such
\* element shows up within its timeout. Either way the finally block of
\* line 106 removes responseCollector from the listeners.
SelectAccount ==
    /\ pc = "selectAccount"
    /\ network = <<>>
    /\ pc' = IF accountName \in NavAccountNames THEN "calcDiff" ELSE "failed"
    /\ collecting' = FALSE
    /\ UNCHANGED <<idleVars, network, parsing, argInput, accountName, responses, writes,
                   calcDiffState, input, transactions, different, changed, missing, i,
                   calls, ynab, applied, ofxFile>>

\* line 122: the loop is over and missing is empty
NoImport ==
    /\ pc = "loop"
    /\ i >= Len(changed)
    /\ missing = <<>>
    /\ pc' = "close"
    /\ UNCHANGED <<idleVars, collectVars,
                   argInput, accountName, responses, writes, calcDiffState, input, transactions,
                   different, changed, missing, i, calls, ynab, applied, ofxFile>>

\* a wait of the page (waitForSelector, waitForNetworkIdle) is rejected:
\* the call in flight throws, main ends in its finally block (lines 129-131);
\* the import's own finally block removes the file (lines 157-163)
Throw ==
    /\ pc \in {"fixing", "importing"}
    /\ pc' = "failed"
    /\ calls' = {}
    /\ ofxFile' = <<>>
    /\ UNCHANGED <<idleVars, collectVars,
                   argInput, accountName, responses, writes, calcDiffState, input, transactions,
                   different, changed, missing, i, ynab, applied>>

\* lines 129-135: the browser is closed and main returns 0
Close ==
    /\ pc = "close"
    /\ pc' = "done"
    /\ UNCHANGED <<idleVars, collectVars,
                   argInput, accountName, responses, writes, calcDiffState, input, transactions,
                   different, changed, missing, i, calls, ynab, applied, ofxFile>>

Next ==
    \/ SelectAccount
    \/ CalcDiff
    \/ FixStart
    \/ FixSave
    \/ FixSettle
    \/ ImportStart
    \/ ImportConfirm
    \/ ImportSettle
    \/ NoImport
    \/ Throw
    \/ Close

Spec == Init /\ [][Next]_vars

---------------------------------------------------------------------------
(* responseCollector *)

\* the body of a response that is not JSON: response.json() rejects
NotJson == [document |-> "html"]

\* main at line 95, responseCollector listening and no response received
\* yet: the page's load brings a document, then the bodies of Responses
InitCollect ==
    /\ NoWait
    /\ collecting = TRUE
    /\ parsing = {}
    /\ \E txs \in SeqsById(DestinationTransactions, 1), in \in SeqsById(InputRecords, 1) :
          /\ InitMain(in, "Nubank", txs, <<>>)
          /\ network = <<NotJson>> \o Responses(txs)

\* lines 85-86: the page emits 'response' and the listener is called; it
\* calls response.json() and awaits the promise
responseCollector ==
    /\ network # <<>>
    /\ collecting
    /\ network' = Tail(network)
    /\ parsing' = parsing \cup {Head(network)}
    /\ UNCHANGED <<runVars, idleVars, collecting>>

\* lines 86-89: the promise of response.json() settles and the listener
\* goes on: a body that is JSON is pushed, for any other the catch gives
\* undefined and nothing is pushed. Nothing orders this step with main.
responsePushed ==
    \E body \in parsing :
        /\ parsing' = parsing \ {body}
        /\ responses' = IF body = NotJson THEN responses ELSE Append(responses, body)
        /\ UNCHANGED <<idleVars, collecting, network, argInput, accountName, pc, calcDiffState,
                       input, writes, transactions, different, changed, missing, i, calls,
                       ynab, applied, ofxFile>>

NextCollect ==
    \/ responseCollector
    \/ responsePushed
    \/ SelectAccount
    \/ CalcDiff
    \/ FixStart
    \/ FixSave
    \/ FixSettle
    \/ ImportStart
    \/ ImportConfirm
    \/ ImportSettle
    \/ NoImport
    \/ Throw
    \/ Close

SpecCollect == InitCollect /\ [][NextCollect]_vars

---------------------------------------------------------------------------
(* waitForNetworkIdle *)

\* the parameter `timeout` (line 325), in ticks of the clock
IdleTimeout == 2

\* `globalTimeout`, that is page._defaultNavigationTimeout (lines 332-334),
\* in ticks of the clock; it is taken to be a number larger than `timeout`
GlobalTimeout == 5

\* lines 325-376, the executor of the promise, run when main calls
\* waitForNetworkIdle at line 103: both timers are set, `inFlight` is 0, the
\* listeners are on. The page may have a request in flight from before.
InitIdle ==
    /\ InitRun(<<>>, "Nubank", <<>>)
    /\ Collected
    /\ requests \in 0..MaxRequests
    /\ inFlight = 0
    /\ timeoutId = 1
    /\ timers = {[id |-> 1, due |-> IdleTimeout]}
    /\ globalTimer = TRUE
    /\ listeners = TRUE
    /\ promise = "pending"
    /\ now = 0
    /\ started = 0
    /\ open \in [earlier : 0..1, since : {0}]
    /\ quietSince = 0

\* clearTimeout(timeoutId): the timer `timeoutId` names, if it is still set
ClearTimeout(set, id) == {t \in set : t.id # id}

\* lines 351-356, the listener of 'request'
onRequest ==
    /\ listeners
    /\ started < MaxStarted
    /\ started' = started + 1
    /\ open' = [open EXCEPT !.since = @ + 1]
    /\ inFlight' = inFlight + 1
    /\ timers' = IF inFlight' > requests THEN ClearTimeout(timers, timeoutId) ELSE timers
    /\ UNCHANGED <<runVars, collectVars, requests, timeoutId, globalTimer, listeners, promise,
                   now, quietSince>>

\* lines 358-366, the listener of 'requestfinished' and of 'requestfailed':
\* a request in flight ends, one started before the call or one started
\* since
onResponse ==
    /\ listeners
    /\ \E which \in {"earlier", "since"} :
          /\ open[which] > 0
          /\ open' = [open EXCEPT ![which] = @ - 1]
    /\ IF inFlight = 0
       THEN UNCHANGED <<inFlight, timeoutId, timers, quietSince>>
       ELSE /\ inFlight' = inFlight - 1
            /\ IF inFlight' <= requests
               THEN /\ timeoutId' = timeoutId + 1
                    /\ timers' = timers \cup {[id |-> timeoutId', due |-> now + IdleTimeout]}
               ELSE UNCHANGED <<timeoutId, timers>>
            /\ quietSince' = IF inFlight > requests /\ inFlight' <= requests
                             THEN now ELSE quietSince
    /\ UNCHANGED <<runVars, collectVars, requests, globalTimer, listeners, promise, now, started>>

\* a timer set with cleanupAndResolve fires, at its time or later (lines
\* 328, 330): cleanup clears the global timer and the timer `timeoutId`
\* names and removes the listeners, then the promise is resolved, which
\* does nothing to a promise already settled
cleanupAndResolve ==
    \E t \in timers :
        /\ now >= t.due
        /\ timers' = ClearTimeout(timers \ {t}, timeoutId)
        /\ globalTimer' = FALSE
        /\ listeners' = FALSE
        /\ promise' = IF promise = "pending" THEN "resolved" ELSE promise
        /\ UNCHANGED <<runVars, collectVars, requests, inFlight, timeoutId, now, started, open,
                       quietSince>>

\* the global timer fires (lines 329, 336-340): cleanup, then the promise is
\* rejected
cleanupAndReject ==
    /\ globalTimer
    /\ now >= GlobalTimeout
    /\ timers' = ClearTimeout(timers, timeoutId)
    /\ globalTimer' = FALSE
    /\ listeners' = FALSE
    /\ promise' = IF promise = "pending" THEN "rejected" ELSE promise
    /\ UNCHANGED <<runVars, collectVars, requests, inFlight, timeoutId, now, started, open,
                   quietSince>>

\* time passes
Tick ==
    /\ now < GlobalTimeout
    /\ now' = now + 1
    /\ UNCHANGED <<runVars, collectVars, requests, inFlight, timeoutId, timers, globalTimer,
                   listeners, promise, started, open, quietSince>>

NextIdle ==
    \/ onRequest
    \/ onResponse
    \/ cleanupAndResolve
    \/ cleanupAndReject
    \/ Tick

SpecIdle == InitIdle /\ [][NextIdle]_vars

---------------------------------------------------------------------------
(* The vocabulary of the properties *)

Range(s) == {s[k] : k \in 1..Len(s)}

\* calcDiff has returned its result
Returned == calcDiffState = "fulfilled"

HasPrefix(str, p) == Len(str) >= Len(p) /\ \A k \in 1..Len(p) : str[k] = p[k]

\* the record passes the date filter
InDateFilter(rec) == HasPrefix(rec.date, Y2018) \/ HasPrefix(rec.date, Y2017)

\* t has the record's date and its compareAmount
IsCounterpart(t, rec) ==
    /\ t.date = rec.date
    /\ ~t.amount.nan
    /\ ~rec.compareAmount.nan
    /\ t.amount.v = rec.compareAmount.v

\* the account's transactions hold an equality-match of the record
HasCounterpart(rec) ==
    \E k \in 1..Len(transactions) : IsCounterpart(transactions[k], rec)

\* t's memo holds "#" followed by the record's shortId
CarriesTag(t, rec) ==
    /\ "memo" \in DOMAIN t
    /\ \E at \in 1..Len(t.memo) :
          /\ at + Len(rec.shortId) <= Len(t.memo)
          /\ t.memo[at] = "#"
          /\ \A j \in 1..Len(rec.shortId) : t.memo[at + j] = rec.shortId[j]

IsTagged(rec) == \E k \in 1..Len(transactions) : CarriesTag(transactions[k], rec)

Classified == Range(changed) \cup Range(missing)

---------------------------------------------------------------------------
(* The reconciliation *)

\* C1: the sets calcDiff returns are disjoint, their union is `different`,
\* and `different` is made of exactly the records of the date-filtered input
\* that have no destination transaction of the same date and compareAmount.
Partition ==
    Returned =>
        /\ Range(changed) \cap Range(missing) = {}
        /\ Classified = Range(different)
        /\ Len(changed) + Len(missing) = Len(different)
        /\ Range(different) =
               {r \in Range(input) : InDateFilter(r) /\ ~HasCounterpart(r)}

\* a result with records of all three kinds
PartitionWitness ==
    /\ Returned
    /\ changed # <<>>
    /\ missing # <<>>
    /\ Len(different) < Len(input)

\* C2: a record that has an equality-match among the account's transactions
\* is in neither changed nor missing, whatever memo carries its tag.
EqualityPrecedence ==
    Returned =>
        \A r \in Range(input) : HasCounterpart(r) => r \notin Classified

\* a relevant record with an equality-match and, in another transaction,
\* its tag
EqualityPrecedenceWitness ==
    /\ Returned
    /\ \E r \in Range(input) :
          /\ InDateFilter(r)
          /\ \E k, h \in 1..Len(transactions) :
                /\ IsCounterpart(transactions[k], r)
                /\ h # k
                /\ CarriesTag(transactions[h], r)
          /\ r \notin Classified

\* C3: a date-filtered record without equality-match whose tag some memo
\* carries is in changed, and its original is the first transaction, in the
\* order of the list, whose memo carries the tag.
FingerprintRecovery ==
    Returned =>
        \A r \in Range(input) :
            (InDateFilter(r) /\ ~HasCounterpart(r) /\ IsTagged(r)) =>
                /\ r \in Range(changed)
                /\ r.original \in 1..Len(transactions)
                /\ CarriesTag(transactions[r.original], r)
                /\ \A h \in 1..(r.original - 1) : ~CarriesTag(transactions[h], r)

\* a changed record whose tag two transactions carry, the first of them of
\* another date and amount
FingerprintRecoveryWitness ==
    /\ Returned
    /\ Len(transactions) >= 2
    /\ \E r \in Range(changed) :
          /\ r.original = 1
          /\ CarriesTag(transactions[2], r)
          /\ transactions[1].date # r.date
          /\ transactions[1].amount # r.compareAmount

\* C4: a date-filtered record without equality-match whose tag no memo
\* carries is in missing and not in changed.
NoMatchMissing ==
    Returned =>
        \A r \in Range(input) :
            (InDateFilter(r) /\ ~HasCounterpart(r) /\ ~IsTagged(r)) =>
                r \in Range(missing) /\ r \notin Range(changed)

\* a missing record, facing a transaction without memo and a transaction
\* that carries another record's tag
NoMatchMissingWitness ==
    /\ Returned
    /\ \E r \in Range(missing) :
          \E k, h \in 1..Len(transactions) :
              /\ "memo" \notin DOMAIN transactions[k]
              /\ "memo" \in DOMAIN transactions[h]
              /\ HasPrefix(transactions[h].memo, <<"#">>)
              /\ ~CarriesTag(transactions[h], r)

---------------------------------------------------------------------------
(* The relevance filter *)

\* lists of prefixes a caller may wish to pass
PrefixLists == { <<Y2018, Y2017>>, <<Y2018>>, <<Y2019>>, <<>> }

StartsWithAny(date, prefixes) ==
    \E k \in 1..Len(prefixes) : HasPrefix(date, prefixes[k])

\* the date filter has not excluded the record
PassedDateFilter(rec) == rec \in Classified \/ HasCounterpart(rec)

\* the filter is the one of the prefixes given
FilterIs(prefixes) ==
    \A r \in Range(input) :
        /\ ~StartsWithAny(r.date, prefixes) => r \notin Classified
        /\ StartsWithAny(r.date, prefixes) => PassedDateFilter(r)

\* C5 as stated: whatever list of prefixes the caller supplies, the filter
\* keeps the records whose date starts with one of them, and only those.
CallerPrefixesHonoured ==
    Returned => \A prefixes \in PrefixLists : FilterIs(prefixes)

\* C5: the filter keeps the records whose date starts with "2018" or with
\* "2017", and only those; the caller has no say in it.
FixedYearsFilter ==
    Returned => FilterIs(<<Y2018, Y2017>>)

\* a record of 2019 left out and a record of 2017 classified
FixedYearsFilterWitness ==
    /\ Returned
    /\ \E r \in Range(input) :
          HasPrefix(r.date, Y2019) /\ ~HasCounterpart(r) /\ r \notin Classified
    /\ \E r \in Range(input) : HasPrefix(r.date, Y2017) /\ r \in Classified

---------------------------------------------------------------------------
(* The amount normalizer *)

\* [-]digits with at most one separator
ValidAmount(a) ==
    LET body == IF a # <<>> /\ a[1] = "-" THEN Tail(a) ELSE a
    IN /\ \A k \in 1..Len(body) : IsDigit(body[k]) \/ body[k] = "."
       /\ \E k \in 1..Len(body) : IsDigit(body[k])
       /\ Cardinality({k \in 1..Len(body) : body[k] = "."}) <= 1

\* the integer the digits ds write, the most significant first
RECURSIVE Magnitude(_)
Magnitude(ds) ==
    IF ds = <<>> THEN 0
    ELSE DigitValue(Head(ds)) * 10 ^ (Len(ds) - 1) + Magnitude(Tail(ds))

\* C6: the compareAmount derived from a valid amount string is ten times
\* the integer its digits write, positive when the string starts with a
\* minus sign and negative when it does not.
AmountNormalization ==
    Returned =>
        \A k \in 1..Len(argInput) :
            LET a == argInput[k].amount
                m == 10 * Magnitude(SelectSeq(a, IsDigit))
            IN (ValidAmount(a) /\ "compareAmount" \notin DOMAIN argInput[k]) =>
                   input[k].compareAmount = Num(IF a[1] = "-" THEN m ELSE 0 - m)

\* "-1.234" has become 12340
AmountNormalizationWitness ==
    /\ Returned
    /\ \E k \in 1..Len(argInput) :
          /\ argInput[k].amount = <<"-", "1", ".", "2", "3", "4">>
          /\ input[k].compareAmount = Num(12340)

---------------------------------------------------------------------------
(* The end-to-end scenario *)

ScenarioInput ==
    << Raw("a1", Iso(Y2018, N03, N01), A_50_00),
       Raw("a2", Iso(Y2019, N01, N01), A_10_00) >>

\* the scenario's input, against a destination without transactions
InScenario == argInput = ScenarioInput /\ responses = Responses(<<>>)

\* the result is the one record a1, with the compareAmount given
ScenarioResult(compareAmount) ==
    /\ changed = <<>>
    /\ Len(missing) = 1
    /\ missing[1].id = "a1"
    /\ missing[1].date = Iso(Y2018, N03, N01)
    /\ missing[1].compareAmount = Num(compareAmount)
    /\ missing[1].shortId = shUnique("a1")
    /\ \A r \in Classified : r.id # "a2"

\* C7 as stated: a1 is the one missing record, with compareAmount -5000.
ScenarioAsStated ==
    (Returned /\ InScenario) => ScenarioResult(-5000)

\* C7: a1 is the one missing record, with compareAmount -50000 and the
\* fingerprint of "a1" as shortId; a2 is in neither set.
ScenarioEndToEnd ==
    (Returned /\ InScenario) => ScenarioResult(-50000)

ScenarioEndToEndWitness ==
    Returned /\ InScenario /\ Len(missing) = 1 /\ pc = "importing"

---------------------------------------------------------------------------
(* The operations applied *)

IsDateOp(op) == op.op = "setDate"
IsCreation(op) == op.op = "create"

\* the date corrections and the creations carried out so far, in order
DateOps == SelectSeq(applied, IsDateOp)
Creations == SelectSeq(applied, IsCreation)

\* the correction of a changed record: the transaction it was matched to
\* gets the record's date
Correction(rec) ==
    [op |-> "setDate", id |-> transactions[rec.original].id, date |-> rec.date]

\* C8: the date corrections applied are, in the order of changed, one per
\* record of changed, each on the transaction original.id with the record's
\* date; there is no other, and a run that ends has applied them all.
DateCorrectionPlanning ==
    /\ Len(DateOps) <= Len(changed)
    /\ \A k \in 1..Len(DateOps) :
          /\ DateOps[k] = Correction(changed[k])
          /\ (\A h \in (k + 1)..Len(DateOps) : DateOps[h].id # DateOps[k].id) =>
                \E row \in 1..Len(ynab) :
                    ynab[row].id = DateOps[k].id /\ ynab[row].date = changed[k].date
    /\ pc \in {"importing", "close", "done"} => Len(DateOps) = Len(changed)

\* the scenario of b1: d9 has been given the date 2018-05-05
DateCorrectionPlanningWitness ==
    /\ pc = "done"
    /\ argInput = <<Raw("b1", Iso(Y2018, N05, N05), A_20_00)>>
    /\ Len(transactions) = 1
    /\ transactions[1].id = "d9"
    /\ transactions[1].date = Iso(Y2018, N05, N06)
    /\ applied = <<[op |-> "setDate", id |-> "d9", date |-> Iso(Y2018, N05, N05)]>>

\* the date of an OFX time stamp is the date given
StampedWith(stamp, date) ==
    /\ Len(stamp) >= 8
    /\ Len(date) = 10
    /\ SubSeq(stamp, 1, 4) = SubSeq(date, 1, 4)
    /\ SubSeq(stamp, 5, 6) = SubSeq(date, 6, 7)
    /\ SubSeq(stamp, 7, 8) = SubSeq(date, 9, 10)

\* the creations are those of the records of missing, one each, with the
\* record's id and date, and a memo that holds "#" followed by the record's
\* shortId (ofRecord) or by the short hash of the record's id
CreationsAre(ofRecord) ==
    /\ Len(Creations) \in {0, Len(missing)}
    /\ pc = "done" => Len(Creations) = Len(missing)
    /\ \A k \in 1..Len(Creations) :
          LET item == Creations[k].item
              tag  == IF ofRecord THEN missing[k].shortId ELSE shUnique(missing[k].id)
          IN /\ item.FITID = missing[k].id
             /\ StampedWith(item.DTPOSTED, missing[k].date)
             /\ CarriesTag([memo |-> item.MEMO], [shortId |-> tag])

\* C9: one creation per record of missing and no other, with the record's
\* id as FITID, the record's date, and a memo that holds "#" followed by the
\* record's shortId.
CreationPlanning == CreationsAre(TRUE)

\* what the code does keep: the memo holds "#" followed by the short hash
\* of the record's id, which is the record's shortId unless the input record
\* has a shortId of its own
CreationPlanningByHashOfId == CreationsAre(FALSE)

\* C10: at most one call is in flight at any moment; a date correction in
\* flight is that of changed[i], the ones before it are applied; the import
\* starts once every record of changed has its correction applied and no
\* correction is in flight, and no correction follows a creation.
OperationOrdering ==
    /\ Cardinality(calls) <= 1
    /\ \A c \in calls :
          c.call = "fix" =>
              /\ c.k = i
              /\ pc = "fixing"
              /\ Len(DateOps) = c.k + (IF c.stage = "saved" THEN 1 ELSE 0)
    /\ ((\E c \in calls : c.call = "import") \/ ofxFile # <<>> \/ Creations # <<>>) =>
          /\ Len(DateOps) = Len(changed)
          /\ i = Len(changed)
          /\ \A c \in calls : c.call # "fix"
    /\ \A a, b \in 1..Len(applied) :
          (a < b /\ IsCreation(applied[a])) => IsCreation(applied[b])

\* the import is in flight after two date corrections
OperationOrderingWitness ==
    /\ pc = "importing"
    /\ Len(changed) = 2
    /\ Len(DateOps) = 2
    /\ \E c \in calls : c.call = "import"

---------------------------------------------------------------------------
(* Errors *)

\* what is left of the amount once its leading minus and its first
\* separator are removed is not a string of digits
MalformedAmount(a) ==
    LET body == IF a # <<>> /\ a[1] = "-" THEN Tail(a) ELSE a
        dots == {k \in 1..Len(body) : body[k] = "."}
    IN \/ \E k \in 1..Len(body) : ~IsDigit(body[k]) /\ body[k] # "."
       \/ Cardinality(dots) > 1
       \/ \A k \in 1..Len(body) : ~IsDigit(body[k])

\* C11: when an input record has a malformed amount the reconciliation
\* fails: calcDiff returns no result, no operation is applied, and the
\* record is in neither changed nor missing.
ParseErrorAborts ==
    (\E k \in 1..Len(argInput) : MalformedAmount(argInput[k].amount)) =>
        /\ ~Returned
        /\ applied = <<>>
        /\ \A rec \in Classified : ~MalformedAmount(rec.amount)

\* the names of the accounts of the budget, as the collected body lists them
BudgetAccountNames ==
    UNION { { r.changed_entities.be_accounts[k].account_name :
                k \in 1..Len(r.changed_entities.be_accounts) } :
            r \in { q \in Range(responses) : "changed_entities" \in DOMAIN q } }

\* C12: when no account of the budget has the requested name, the run ends
\* in an error before calcDiff is called, whatever the transactions of the
\* budget are: calcDiff returns nothing and no operation is applied.
AccountNotFound ==
    accountName \notin BudgetAccountNames =>
        /\ pc \in {"selectAccount", "failed"}
        /\ calcDiffState = "pending"
        /\ input = <<>>
        /\ applied = <<>>
        /\ ynab = responses[2].changed_entities.be_transactions

\* the run has failed for an account the budget does not have, the budget
\* having no transaction at all
AccountNotFoundWitness ==
    /\ accountName = "Savings"
    /\ accountName \notin BudgetAccountNames
    /\ responses[2].changed_entities.be_transactions = <<>>
    /\ pc = "failed"


---------------------------------------------------------------------------
(* Frame *)

\* the transactions of the budget, as the collected bodies hold them
BudgetTransactions ==
    UNION { Range(r.changed_entities.be_transactions) :
            r \in { q \in Range(responses) : "changed_entities" \in DOMAIN q } }

\* r and s have the same properties with the same values, `original` aside
SameButOriginal(r, s) ==
    /\ DOMAIN r \ {"original"} = DOMAIN s \ {"original"}
    /\ \A f \in DOMAIN r \ {"original"} : r[f] = s[f]

\* the record of `input` at k was written to
Written(k) == \E n \in 1..Len(writes) : writes[n].record = k

\* C13: no step changes the caller's input records or the bodies that hold
\* the destination transactions; the transactions calcDiff works on are
\* those of the bodies, as they are; the only property written on a record
\* of calcDiff's own `input` is `original`, at most once per record, and
\* every other property keeps the value the record was created with.
FrameCondition ==
    /\ [][argInput' = argInput /\ responses' = responses]_vars
    /\ [](/\ Range(transactions) \subseteq BudgetTransactions
          /\ \A n \in 1..Len(writes) :
                /\ writes[n].property = "original"
                /\ writes[n].record \in 1..Len(input)
                /\ \A h \in 1..Len(writes) : h # n => writes[h].record # writes[n].record
          /\ \A k \in 1..Len(input) :
                LET created == Spread([id |-> argInput[k].id,
                                       date |-> argInput[k].date.date,
                                       amount |-> argInput[k].amount,
                                       shortId |-> shUnique(argInput[k].id),
                                       compareAmount |-> CompareAmount(argInput[k].amount)],
                                      [f \in DOMAIN argInput[k] \ {"id", "date", "amount"} |->
                                          argInput[k][f]])
                IN IF Written(k)
                   THEN SameButOriginal(input[k], created)
                   ELSE input[k] = created)

\* calcDiff has returned with two records written to, one of which got a
\* transaction as its `original`, and a third record left as created
FrameConditionWitness ==
    /\ Returned
    /\ Len(writes) = 2
    /\ Len(input) = 3
    /\ changed # <<>>
    /\ \E k \in 1..Len(input) : ~Written(k) /\ "original" \notin DOMAIN input[k]
    /\ transactions # <<>>

---------------------------------------------------------------------------
(* Derived fields *)

\* C14: every normalized record has the short hash of its id as shortId and
\* the normalization of its amount as compareAmount, whatever other
\* properties the input record has; a record of missing has no `original`.
DerivedFieldsAuthoritative ==
    /\ \A k \in 1..Len(input) :
          /\ input[k].id = argInput[k].id
          /\ input[k].shortId = shUnique(argInput[k].id)
          /\ input[k].compareAmount = CompareAmount(argInput[k].amount)
    /\ \A rec \in Range(missing) : "original" \in DOMAIN rec => rec.original = 0

---------------------------------------------------------------------------
(* The result as a whole *)

\* the account's transactions once every date correction of the result is
\* applied, in the order of changed: the transaction original.id has the
\* record's date
Corrected ==
    [k \in 1..Len(transactions) |->
        LET on == {c \in 1..Len(changed) : changed[c].original = k}
        IN IF on = {} THEN transactions[k]
           ELSE LET last == CHOOSE c \in on : \A h \in on : h <= c
                IN [transactions[k] EXCEPT !.date = changed[last].date]]

\* the transactions the creations of the result add: the record's date, its
\* compareAmount as amount and a memo that holds "#" and its shortId
Created ==
    [k \in 1..Len(missing) |->
        [id |-> "n-" \o missing[k].id, date |-> missing[k].date,
         amount |-> missing[k].compareAmount,
         memo |-> <<"#">> \o missing[k].shortId]]

\* C15: when calcDiff has returned, reconciling the same input against the
\* account's transactions with every operation of the result applied
\* leaves no record in changed and none in missing.
Convergence ==
    Returned =>
        LET again == [k \in 1..Len(argInput) |-> Normalize(argInput[k])]
        IN Different(again, Corrected \o Created) = <<>>

\* the records of the date-filtered input that have the date and the
\* compareAmount of rec
Twins(rec) ==
    { k \in 1..Len(input) :
        /\ InDateFilter(input[k])
        /\ input[k].date = rec.date
        /\ ~input[k].compareAmount.nan
        /\ input[k].compareAmount = rec.compareAmount }

\* C16: when the date-filtered input has more records of some date and
\* compareAmount than the account has transactions of that date and amount,
\* one of these records at least is in changed or in missing.
NoRecordLostToSharedMatch ==
    Returned =>
        \A k \in 1..Len(input) :
            LET n == Cardinality(Twins(input[k]))
                m == Cardinality({t \in 1..Len(transactions) :
                                     IsCounterpart(transactions[t], input[k])})
            IN (n > 0 /\ m < n) =>
                   \E h \in Twins(input[k]) :
                       \E rec \in Classified : rec.id = input[h].id

\* C17: no two records of changed have the same transaction as `original`.
DistinctCorrectionTargets ==
    \A a, b \in 1..Len(changed) :
        a # b => changed[a].original # changed[b].original

---------------------------------------------------------------------------
(* The wait for an idle network *)

\* C18: the promise of waitForNetworkIdle settles at most once; it is
\* resolved only when `inFlight` is at most `requests` and has been so for
\* the last `timeout` at least, and rejected only once the global timeout
\* has passed; once it is settled the listeners are off.
NetworkIdleSettlement ==
    /\ [][/\ promise # "pending" => promise' = promise
          /\ (promise = "pending" /\ promise' = "resolved") =>
                 /\ inFlight <= requests
                 /\ now - quietSince >= IdleTimeout
          /\ (promise = "pending" /\ promise' = "rejected") => now >= GlobalTimeout]_vars
    /\ [](promise \in {"resolved", "rejected"} => ~listeners)

---------------------------------------------------------------------------
(* The collection of the responses *)

\* C19: when main is about to call calcDiff, no JSON body whose response
\* came while responseCollector was listening is still to be pushed, and
\* once calcDiff has started `responses` does not change.
CollectionComplete ==
    /\ [](pc = "calcDiff" => \A body \in parsing : body = NotJson)
    /\ [][pc \notin {"selectAccount", "calcDiff"} => responses' = responses]_vars

=============================================================================
